---- MODULE Spec2Model ----
(***************************************************************************)
(* State-machine model of the Obsidian MCP server plugin: the plugin's     *)
(* lifecycle operations (main.ts: onload, start/stop commands, restart,    *)
(* onunload), the settings panel (src/settings.ts), the MCPServer wrapper  *)
(* and its tool registration and handlers (src/mcp-server.ts), and the     *)
(* transport the wrapper drives (the FastMCP HTTP listener), whose bind    *)
(* and close complete asynchronously because the wrapper awaits neither.   *)
(***************************************************************************)
EXTENDS Integers, Sequences, FiniteSets, Bags, TLC

VARIABLES
    phase,            \* plugin object: "constructed", "loaded", "unloaded"
    persisted,        \* content of the plugin's data.json (loadData/saveData)
    settings,         \* this.settings
    mcpServer,        \* this.mcpServer: the MCPServer held, or NoServer
    detached,         \* bag of the MCPServer instances the plugin let go of
                      \* whose transport is still binding, bound or closing
    pendingRestarts,  \* restartMCPServer calls waiting in their 500 ms delay,
                      \* oldest first: for each, whether it was called
                      \* with a server listening on another port than
                      \* the configured one
    portBusy,         \* ports held by other processes of the machine
    notices,          \* the Notices the last step of the plugin's code
                      \* emitted, in order (and, for the 'error' listener,
                      \* the line it writes to the console)
    lastCall          \* the outcome of the tool call, when that step was one

vars == <<phase, persisted, settings, mcpServer, detached, pendingRestarts,
          portBusy, notices, lastCall>>

(* ------------------------------ bounds -------------------------------- *)

\* MCPServer instances that may exist at once, held or detached.
MaxServers == 2

\* restartMCPServer calls that may wait in their delay at once.
MaxPendingRestarts == 1

(* ----------------------------- settings ------------------------------- *)

\* The tools setupTools can register, in registration order.
ToolOrder ==
    << "list_files", "read_file", "create_file", "edit_file", "delete_file",
       "create_folder", "delete_folder", "get_active_file", "open_file",
       "get_selection", "insert_text", "get_vault_info", "search_vault",
       "get_file_metadata", "get_links", "get_open_files", "list_commands",
       "execute_command", "rename_file" >>

Catalog == { ToolOrder[i] : i \in 1..Len(ToolOrder) }

DefaultPort == 27123

LegacyPort == 8080

\* Default settings with every tool enabled.
DEFAULT_SETTINGS_ALL_ENABLED ==
    [ port |-> DefaultPort,
      startOnStartup |-> FALSE,
      tools |-> [ n \in Catalog |-> TRUE ] ]

\* DEFAULT_SETTINGS: every tool enabled but execute_command.
DEFAULT_SETTINGS ==
    [ port |-> DefaultPort,
      startOnStartup |-> FALSE,
      tools |-> [ n \in Catalog |-> n # "execute_command" ] ]

\* The tool toggles an earlier release of the plugin wrote to data.json: the
\* fourteen names it knew, all enabled. get_active_file_path is no tool of
\* the current catalog; the six newest tools are missing.
LegacyToolNames ==
    { "list_files", "read_file", "create_file", "edit_file", "delete_file",
      "create_folder", "delete_folder", "get_active_file",
      "get_active_file_path", "open_file", "get_selection", "insert_text",
      "get_vault_info", "search_vault" }

LEGACY_SETTINGS ==
    [ port |-> LegacyPort,
      startOnStartup |-> FALSE,
      tools |-> [ n \in LegacyToolNames |-> TRUE ] ]

\* loadData() resolves to null when the plugin has never saved.
NoData == [ x \in {} |-> TRUE ]

\* What data.json may hold when the plugin loads: nothing, the settings a
\* previous run of this release saved (with autostart and execute_command
\* turned on), or the settings an earlier release saved.
PersistedChoices ==
    { NoData,
      [ DEFAULT_SETTINGS EXCEPT !.startOnStartup = TRUE,
                                !.tools.execute_command = TRUE ],
      LEGACY_SETTINGS }

\* Object.assign({}, a, b): own keys of b replace those of a, key by key at
\* the top level only; a nested object (tools) is taken whole from b.
ObjectAssign(a, b) ==
    [ k \in DOMAIN a \cup DOMAIN b |-> IF k \in DOMAIN b THEN b[k] ELSE a[k] ]

\* The value of settings.tools[n] as a condition: a missing key reads as
\* undefined, which is falsy.
Truthy(tools, n) == n \in DOMAIN tools /\ tools[n]

(* ------------------------ persisted port input ------------------------- *)

Digits == { "0", "1", "2", "3", "4", "5", "6", "7", "8", "9" }

DigitValue(c) ==
    CASE c = "0" -> 0 [] c = "1" -> 1 [] c = "2" -> 2 [] c = "3" -> 3
      [] c = "4" -> 4 [] c = "5" -> 5 [] c = "6" -> 6 [] c = "7" -> 7
      [] c = "8" -> 8 [] c = "9" -> 9

\* The texts typed into the port field, as sequences of characters.
PortTexts ==
    { << "8", "0", "8", "0" >>,
      << "2", "7", "1", "2", "3" >>,
      << " ", "8", "0", "8", "0" >>,
      << "8", "0", "8", "0", ".", "9" >>,
      << "8", "0", "8", "0", "x" >>,
      << "0" >>,
      << "-", "1" >>,
      << "6", "5", "5", "3", "6" >>,
      << "a", "b", "c" >>,
      << >> }

RECURSIVE SkipSpaces(_)
SkipSpaces(t) ==
    IF t # << >> /\ Head(t) = " " THEN SkipSpaces(Tail(t)) ELSE t

RECURSIVE DigitPrefix(_, _, _)
\* The value of the longest prefix of digits of t, and whether it has any.
DigitPrefix(t, acc, any) ==
    IF t # << >> /\ Head(t) \in Digits
    THEN DigitPrefix(Tail(t), 10 * acc + DigitValue(Head(t)), TRUE)
    ELSE [ nan |-> ~any, n |-> acc ]

\* parseInt(value) with no radix, for decimal input: leading white space is
\* skipped, one sign is read, then the longest run of digits; the rest of
\* the text is ignored, and the result is NaN when there is no digit.
ParseInt(t) ==
    LET u == SkipSpaces(t)
        neg == u # << >> /\ Head(u) = "-"
        v == IF u # << >> /\ Head(u) \in { "-", "+" } THEN Tail(u) ELSE u
        r == DigitPrefix(v, 0, FALSE)
    IN  [ nan |-> r.nan, n |-> IF neg THEN 0 - r.n ELSE r.n ]

\* const port = parseInt(value), for each text of the port field.
ParsedPort == [ text \in PortTexts |-> ParseInt(text) ]

\* The settings panel's test of a parsed port.
ValidPort(r) == ~r.nan /\ r.n > 0 /\ r.n < 65536

(* ----------------------------- transport ------------------------------ *)

Ports == { DefaultPort, LegacyPort }

\* The port another process of the machine may hold.
ExternalPorts == { DefaultPort }

\* this.mcpServer === undefined.
NoServer == [ port |-> 0, tools |-> << >>, off |-> {}, state |-> "none" ]

\* A transport holds its port from the moment its listen succeeds until its
\* close completes.
Bound(srv) == srv.state \in { "listening", "closing" }

\* The number of transports that hold a port.
BoundCount ==
    (IF Bound(mcpServer) THEN 1 ELSE 0)
    + BagCardinality([ r \in { x \in BagToSet(detached) : Bound(x) }
                         |-> detached[r] ])

\* The MCPServer instances that exist.
InstanceCount ==
    (IF mcpServer # NoServer THEN 1 ELSE 0) + BagCardinality(detached)

\* Whether a listen on port p would succeed now.
PortAvailable(p) ==
    /\ p \notin portBusy
    /\ ~(Bound(mcpServer) /\ mcpServer.port = p)
    /\ \A r \in BagToSet(detached) : ~(Bound(r) /\ r.port = p)

\* setupTools without the conditions on the toggles.
SetupToolsAll(tools) == ToolOrder

\* setupTools with a second addTool block for rename_file.
SetupToolsTwice(tools) ==
    SelectSeq(ToolOrder \o << "rename_file" >>, LAMBDA n : Truthy(tools, n))

\* setupTools: one addTool per catalog entry whose toggle is truthy, in
\* source order.
SetupTools(tools) == SelectSeq(ToolOrder, LAMBDA n : Truthy(tools, n))

Registered(srv) == { srv.tools[k] : k \in 1..Len(srv.tools) }

\* The number of addTool calls that registered the name n on a server.
Registrations(srv, n) ==
    Cardinality({ k \in 1..Len(srv.tools) : srv.tools[k] = n })

\* new MCPServer that registers the tools of the default settings, whatever
\* the settings it is given.
NewMCPServerWithDefaults(cfg) ==
    [ port |-> cfg.port, tools |-> SetupTools(DEFAULT_SETTINGS.tools),
      off |-> { n \in Catalog : ~Truthy(cfg.tools, n) }, state |-> "new" ]

\* new MCPServer(app, port, settings, t): the port is copied, the tools are
\* registered once, in the constructor. "off" keeps the catalog names the
\* settings did not enable when the constructor read them.
NewMCPServer(cfg) ==
    [ port |-> cfg.port, tools |-> SetupTools(cfg.tools),
      off |-> { n \in Catalog : ~Truthy(cfg.tools, n) }, state |-> "new" ]

\* The state the plugin reports (ribbon icon, start command).
LifecycleState == IF mcpServer # NoServer THEN "Running" ELSE "Stopped"

(* --------------------------- observations ----------------------------- *)

Range(seq) == { seq[k] : k \in 1..Len(seq) }

Last(seq) == seq[Len(seq)]

\* The outcome of a tool call: the tool named and how the serving server's
\* settings stood to it (target: "enabled", "disabled" or "unknown"); what
\* came back (kind: "notfound", "invalid", or "result" from execute), the
\* error message and the names the error identifies; the required fields
\* the arguments lacked; the capability operations execute invoked, whether
\* execute ran, whether one of the operations raised, and whether a
\* failure left execute; for a call that reached execute, the host as the
\* call found it, the validated input, the line the cursor was put on, and
\* the argument handed to the operation that acts on the host (arg); and the
\* number of tools registered on the server under the name called
\* (handlers).
NoCall == [ tool |-> "", target |-> "", kind |-> "none", error |-> "",
            names |-> {}, data |-> << >>, missing |-> {}, ops |-> << >>,
            ran |-> FALSE, raised |-> FALSE, escaped |-> FALSE,
            host |-> << >>, input |-> << >>,
            cursor |-> [ t |-> "undefined", s |-> "", n |-> 0 ],
            arg |-> [ t |-> "undefined", s |-> "", n |-> 0 ],
            handlers |-> 0 ]

\* A step of the plugin's code that is no tool call leaves no call outcome
\* to be observed.
NoCallStep == lastCall' = NoCall

(* ------------------------ plugin: start and stop ----------------------- *)

\* The bag b with one more copy of srv, unless nothing of srv is left.
Detach(b, srv) == IF srv = NoServer THEN b ELSE b (+) SetToBag({ srv })

\* startMCPServer without its test of this.mcpServer: a server is built and
\* started whether or not one is held; the one held is let go of.
StartMCPServerUnguarded(cfg, throws, after) ==
    /\ ~throws
    /\ InstanceCount < MaxServers
    /\ notices' = << "notices.serverStarted" >> \o after
    /\ mcpServer' = [ NewMCPServer(cfg) EXCEPT !.state = "binding" ]
    /\ detached' = Detach(detached, mcpServer)

\* startMCPServer with the settings cfg. MCPServer.start() calls the
\* transport's start without awaiting it: the call either raises at once
\* (throws; both catch blocks then run), or returns with the listen still
\* pending, whatever its later outcome. The caller's own notices (after)
\* follow those of the start.
StartMCPServer(cfg, throws, after) ==
    IF mcpServer # NoServer
    THEN /\ ~throws
         /\ notices' = << "notices.serverAlreadyRunning" >> \o after
         /\ UNCHANGED << mcpServer, detached >>
    ELSE IF throws
    THEN /\ ~PortAvailable(cfg.port)
         /\ notices' = << "server.startError", "notices.serverStartFailed" >>
                       \o after
         /\ mcpServer' = NoServer
         /\ UNCHANGED detached
    ELSE /\ InstanceCount < MaxServers
         /\ notices' = << "notices.serverStarted" >> \o after
         /\ mcpServer' = [ NewMCPServer(cfg) EXCEPT !.state = "binding" ]
         /\ UNCHANGED detached

\* What the transport's stop() may do to a transport in state st, the call
\* not being awaited: "closing" starts the close of a listening transport,
\* which keeps its port until the close completes; a transport whose listen
\* is still pending is either cancelled or left to complete its listen; a
\* transport whose listen failed has nothing to close; "throws" is stop()
\* raising, which changes nothing.
StopOutcomes(st) ==
    CASE st = "listening" -> { "closing", "throws" }
      [] st = "binding"   -> { "cancelled", "ignored", "throws" }
      [] st = "failed"    -> { "none", "throws" }
      [] OTHER            -> { }

AllStopOutcomes == { "closing", "cancelled", "ignored", "none", "throws" }

\* The transport after stop() with the given outcome; NoServer when nothing
\* of it is left.
AfterStop(srv, outcome) ==
    CASE outcome = "closing"                 -> [ srv EXCEPT !.state = "closing" ]
      [] outcome \in { "cancelled", "none" } -> NoServer
      [] srv.state = "failed"                -> NoServer
      [] OTHER                               -> srv

\* stopMCPServer with its two branches reporting the same: a stop with no
\* server held is reported as a stop.
StopMCPServerAlwaysReports(outcome) ==
    IF mcpServer # NoServer
    THEN /\ outcome \in StopOutcomes(mcpServer.state)
         /\ detached' = Detach(detached, AfterStop(mcpServer, outcome))
         /\ mcpServer' = NoServer
         /\ notices' = << "notices.serverStopped" >>
    ELSE /\ outcome = "none"
         /\ notices' = << "notices.serverStopped" >>
         /\ UNCHANGED << mcpServer, detached >>

\* stopMCPServer: MCPServer.stop() catches what the transport's stop raises
\* and reports it; the reference is cleared without waiting for the close.
StopMCPServer(outcome) ==
    IF mcpServer # NoServer
    THEN /\ outcome \in StopOutcomes(mcpServer.state)
         /\ detached' = Detach(detached, AfterStop(mcpServer, outcome))
         /\ mcpServer' = NoServer
         /\ notices' = IF outcome = "throws"
                       THEN << "server.stopError", "notices.serverStopped" >>
                       ELSE << "notices.serverStopped" >>
    ELSE /\ outcome = "none"
         /\ notices' = << "notices.serverAlreadyStopped" >>
         /\ UNCHANGED << mcpServer, detached >>

(* --------------------------- plugin: actions --------------------------- *)

\* loadSettings.
LoadSettings(data) == ObjectAssign(DEFAULT_SETTINGS, data)

\* onload that starts the server whatever startOnStartup is.
OnLoadAlwaysStarts ==
    /\ phase = "constructed"
    /\ phase' = "loaded"
    /\ settings' = LoadSettings(persisted)
    /\ \E throws \in BOOLEAN : StartMCPServer(settings', throws, << >>)
    /\ NoCallStep
    /\ UNCHANGED << persisted, pendingRestarts, portBusy >>

\* onload: loadSettings, then the autostart.
OnLoad ==
    /\ phase = "constructed"
    /\ phase' = "loaded"
    /\ settings' = LoadSettings(persisted)
    /\ IF settings'.startOnStartup
       THEN \E throws \in BOOLEAN : StartMCPServer(settings', throws, << >>)
       ELSE notices' = << >> /\ UNCHANGED << mcpServer, detached >>
    /\ NoCallStep
    /\ UNCHANGED << persisted, pendingRestarts, portBusy >>

\* The start-mcp-server command.
StartCommand ==
    /\ phase = "loaded"
    /\ IF mcpServer = NoServer
       THEN \E throws \in BOOLEAN : StartMCPServer(settings, throws, << >>)
       ELSE /\ notices' = << "notices.serverAlreadyRunning" >>
            /\ UNCHANGED << mcpServer, detached >>
    /\ NoCallStep
    /\ UNCHANGED << phase, persisted, settings, pendingRestarts, portBusy >>

\* The stop-mcp-server command.
StopCommand ==
    /\ phase = "loaded"
    /\ \E outcome \in AllStopOutcomes : StopMCPServer(outcome)
    /\ NoCallStep
    /\ UNCHANGED << phase, persisted, settings, pendingRestarts, portBusy >>

\* onunload.
OnUnload ==
    /\ phase = "loaded"
    /\ phase' = "unloaded"
    /\ \E outcome \in AllStopOutcomes : StopMCPServer(outcome)
    /\ NoCallStep
    /\ UNCHANGED << persisted, settings, pendingRestarts, portBusy >>

\* restartMCPServer up to its await: the stop, then the 500 ms timer.
RestartBegin ==
    /\ phase = "loaded"
    /\ Len(pendingRestarts) < MaxPendingRestarts
    /\ pendingRestarts' =
          Append(pendingRestarts,
                 Bound(mcpServer) /\ mcpServer.port # settings.port)
    /\ \E outcome \in AllStopOutcomes : StopMCPServer(outcome)
    /\ NoCallStep
    /\ UNCHANGED << phase, persisted, settings, portBusy >>

\* restartMCPServer after the timer: the start, with the settings of that
\* moment; the settings panel then reports the restart as successful, since
\* startMCPServer raises nothing.
RestartResume ==
    /\ pendingRestarts # << >>
    /\ pendingRestarts' = Tail(pendingRestarts)
    /\ \E throws \in BOOLEAN :
          StartMCPServer(settings, throws,
                         << "settings.notices.restartSuccess" >>)
    /\ NoCallStep
    /\ UNCHANGED << phase, persisted, settings, portBusy >>

(* ------------------------- the settings panel -------------------------- *)

\* saveSettings: saveData(this.settings).
SaveSettings == persisted' = settings'

\* A port field that stores whatever number parseInt reads.
SetPortUnchecked(text) ==
    /\ phase = "loaded"
    /\ IF ~ParsedPort[text].nan
       THEN /\ settings' = [ settings EXCEPT !.port = ParsedPort[text].n ]
            /\ SaveSettings
            /\ notices' = << >>
       ELSE /\ notices' = << "settings.notices.invalidPort" >>
            /\ UNCHANGED << settings, persisted >>
    /\ NoCallStep
    /\ UNCHANGED << phase, mcpServer, detached, pendingRestarts, portBusy >>

\* A port field that also moves the server held to the port stored.
SetPortLive(text) ==
    /\ phase = "loaded"
    /\ IF ValidPort(ParsedPort[text])
       THEN /\ settings' = [ settings EXCEPT !.port = ParsedPort[text].n ]
            /\ SaveSettings
            /\ notices' = << >>
            /\ mcpServer' = IF mcpServer = NoServer THEN mcpServer
                            ELSE [ mcpServer EXCEPT !.port = ParsedPort[text].n ]
       ELSE /\ notices' = << "settings.notices.invalidPort" >>
            /\ UNCHANGED << settings, persisted, mcpServer >>
    /\ NoCallStep
    /\ UNCHANGED << phase, detached, pendingRestarts, portBusy >>

\* The port field's onChange.
SetPort(text) ==
    /\ phase = "loaded"
    /\ IF ValidPort(ParsedPort[text])
       THEN /\ settings' = [ settings EXCEPT !.port = ParsedPort[text].n ]
            /\ SaveSettings
            /\ notices' = << >>
       ELSE /\ notices' = << "settings.notices.invalidPort" >>
            /\ UNCHANGED << settings, persisted >>
    /\ NoCallStep
    /\ UNCHANGED << phase, mcpServer, detached, pendingRestarts, portBusy >>

\* The tools whose toggles the model flips.
EditableTools == { "rename_file" }

\* settings.tools[n] = value: the key is added when it is missing.
AssignTool(tools, n, value) ==
    [ k \in DOMAIN tools \cup { n } |-> IF k = n THEN value ELSE tools[k] ]

\* A tool toggle's onChange that also registers or removes the tool on the
\* server held.
SetToolToggleLive(n) ==
    /\ phase = "loaded"
    /\ settings' = [ settings EXCEPT
                       !.tools = AssignTool(settings.tools, n,
                                            ~Truthy(settings.tools, n)) ]
    /\ SaveSettings
    /\ mcpServer' = IF mcpServer = NoServer THEN mcpServer
                    ELSE [ mcpServer EXCEPT !.tools = SetupTools(settings'.tools) ]
    /\ notices' = << >>
    /\ NoCallStep
    /\ UNCHANGED << phase, detached, pendingRestarts, portBusy >>

\* A tool toggle's onChange: the toggle shows settings.tools[n] (off when
\* the key is missing) and reports the flipped value. Only the settings
\* change; no server is touched.
SetToolToggle(n) ==
    /\ phase = "loaded"
    /\ settings' = [ settings EXCEPT
                       !.tools = AssignTool(settings.tools, n,
                                            ~Truthy(settings.tools, n)) ]
    /\ SaveSettings
    /\ notices' = << >>
    /\ NoCallStep
    /\ UNCHANGED << phase, mcpServer, detached, pendingRestarts, portBusy >>

(* ----------------------- the transport's own steps --------------------- *)

\* The transport after its pending listen completes: it binds the port if
\* the port is free and fails otherwise.
AfterListen(srv) ==
    [ srv EXCEPT !.state = IF PortAvailable(srv.port) THEN "listening"
                           ELSE "failed" ]

\* The pending listen of the held server's transport completes. Nothing of
\* the plugin runs on either outcome.
BindComplete ==
    /\ mcpServer.state = "binding"
    /\ mcpServer' = AfterListen(mcpServer)
    /\ UNCHANGED << phase, persisted, settings, detached, pendingRestarts,
                    portBusy, notices, lastCall >>

\* The pending listen of a detached transport completes; an instance nobody
\* holds is gone when its listen fails.
BindCompleteDetached(srv) ==
    /\ srv \in BagToSet(detached)
    /\ srv.state = "binding"
    /\ detached' = IF PortAvailable(srv.port)
                   THEN (detached (-) SetToBag({ srv }))
                            (+) SetToBag({ AfterListen(srv) })
                   ELSE detached (-) SetToBag({ srv })
    /\ UNCHANGED << phase, persisted, settings, mcpServer, pendingRestarts,
                    portBusy, notices, lastCall >>

\* The close of a stopped transport completes and releases its port.
CloseComplete(srv) ==
    /\ srv \in BagToSet(detached)
    /\ srv.state = "closing"
    /\ detached' = detached (-) SetToBag({ srv })
    /\ UNCHANGED << phase, persisted, settings, mcpServer, pendingRestarts,
                    portBusy, notices, lastCall >>

\* The code of a client disconnect, which the error handler keeps quiet.
DisconnectCode == -32001

\* The codes of the 'error' events of the model: a disconnect, and an
\* internal error.
ErrorCodes == { DisconnectCode, 0 - 32603 }

\* The line the 'error' listener writes to the console.
ErrorLogged == "console.error: MCP Server error"

\* An 'error' listener that shows every error.
OnServerErrorShowsAll(code) == << ErrorLogged, "server.genericError" >>

\* The 'error' listener MCPServer.start() registers: the error is logged,
\* and shown unless its code is that of a client disconnect.
OnServerError(code) ==
    << ErrorLogged >>
      \o (IF code # DisconnectCode THEN << "server.genericError" >> ELSE << >>)

\* An 'error' handler that gives the server up on an error it shows.
TransportErrorStops(code) ==
    /\ InstanceCount > 0
    /\ notices' = OnServerError(code)
    /\ mcpServer' = IF code # DisconnectCode THEN NoServer ELSE mcpServer
    /\ NoCallStep
    /\ UNCHANGED << phase, persisted, settings, detached, pendingRestarts,
                    portBusy >>

\* An 'error' event of a transport whose start() was called.
TransportError(code) ==
    /\ InstanceCount > 0
    /\ notices' = OnServerError(code)
    /\ NoCallStep
    /\ UNCHANGED << phase, persisted, settings, mcpServer, detached,
                    pendingRestarts, portBusy >>

\* Another process takes a free port, or gives one up.
ExternalBind(p) ==
    /\ PortAvailable(p)
    /\ portBusy' = portBusy \cup { p }
    /\ UNCHANGED << phase, persisted, settings, mcpServer, detached,
                    pendingRestarts, notices, lastCall >>

ExternalRelease(p) ==
    /\ p \in portBusy
    /\ portBusy' = portBusy \ { p }
    /\ UNCHANGED << phase, persisted, settings, mcpServer, detached,
                    pendingRestarts, notices, lastCall >>

\* The transports that exist: the held one and the detached ones.
Transports ==
    (IF mcpServer # NoServer THEN { mcpServer } ELSE {}) \cup BagToSet(detached)

(* ------------------------- tools: parameters --------------------------- *)

\* Argument values: a JSON value with its type.
Str(x) == [ t |-> "string", s |-> x, n |-> 0 ]

Num(x) == [ t |-> "number", s |-> "", n |-> x ]

Bool(b) == [ t |-> "boolean", s |-> "", n |-> IF b THEN 1 ELSE 0 ]

Undefined == [ t |-> "undefined", s |-> "", n |-> 0 ]

\* One field of a z.object: its type, whether a call must supply it, and
\* its default (Undefined when it has none).
Fld(f, t, req, def) == [ name |-> f, type |-> t, required |-> req, default |-> def ]

RelativePath == Fld("relative_path", "string", TRUE, Undefined)

\* editFileParametersSchema: a path, a line range and the replacement text.
EditFileParametersSchema ==
    { RelativePath,
      Fld("start_line", "number", TRUE, Undefined),
      Fld("end_line", "number", TRUE, Undefined),
      Fld("new_content", "string", TRUE, Undefined) }

\* The parameters each tool declares.
Schema(n) ==
    CASE n = "list_files" ->
           { Fld("relative_path", "string", FALSE, Str(".")) }
      [] n = "read_file" ->
           { RelativePath, Fld("line_number", "boolean", FALSE, Undefined) }
      [] n = "create_file" ->
           { RelativePath, Fld("content", "string", TRUE, Undefined) }
      [] n = "edit_file" -> EditFileParametersSchema
      [] n = "delete_file" -> { RelativePath }
      [] n = "create_folder" -> { RelativePath }
      [] n = "delete_folder" ->
           { RelativePath, Fld("force", "boolean", FALSE, Bool(FALSE)) }
      [] n = "get_active_file" ->
           { Fld("include_content", "boolean", FALSE, Bool(FALSE)) }
      [] n = "open_file" ->
           { RelativePath, Fld("line", "number", FALSE, Undefined),
             Fld("new_leaf", "boolean", FALSE, Undefined) }
      [] n = "insert_text" -> { Fld("text", "string", TRUE, Undefined) }
      [] n = "search_vault" ->
           { Fld("query", "string", TRUE, Undefined),
             Fld("include_content", "boolean", FALSE, Undefined),
             Fld("limit", "number", FALSE, Num(20)) }
      [] n = "get_file_metadata" -> { RelativePath }
      [] n = "get_links" ->
           { RelativePath, Fld("direction", "enum", FALSE, Str("both")) }
      [] n = "list_commands" -> { Fld("filter", "string", FALSE, Undefined) }
      [] n = "execute_command" -> { Fld("command_id", "string", TRUE, Undefined) }
      [] n = "rename_file" ->
           { Fld("old_path", "string", TRUE, Undefined),
             Fld("new_path", "string", TRUE, Undefined) }
      [] OTHER -> { }

\* The options of the one enum, get_links' direction.
Directions == { "incoming", "outgoing", "both" }

\* addTool given no parameters for the tool.
AddToolWithoutParameters(n) == [ name |-> n, parameters |-> { } ]

\* What setupTools hands to addTool for tool n.
AddTool(n) == [ name |-> n, parameters |-> Schema(n) ]

FieldNames(schema) == { x.name : x \in schema }

FieldOf(schema, f) == CHOOSE x \in schema : x.name = f

\* Whether value v is of the type field x declares.
TypeOk(x, v) ==
    IF x.type = "enum" THEN v.t = "string" /\ v.s \in Directions
    ELSE v.t = x.type

\* The fields validation rejects: required and missing, or of another type
\* than declared. Fields the schema does not declare are ignored.
Issues(schema, args) ==
    { x.name : x \in { y \in schema :
                         IF y.name \in DOMAIN args
                         THEN ~TypeOk(y, args[y.name])
                         ELSE y.required } }

\* The validated arguments: the declared fields supplied, and the defaults
\* of those left out.
Parsed(schema, args) ==
    [ f \in { x.name : x \in { y \in schema :
                                 y.name \in DOMAIN args \/ y.default # Undefined } }
        |-> IF f \in DOMAIN args THEN args[f] ELSE FieldOf(schema, f).default ]

\* The required fields of tool n that args lacks.
MissingRequired(n, args) ==
    { x.name : x \in { y \in Schema(n) : y.required /\ y.name \notin DOMAIN args } }

(* -------------------------- tools: handlers ---------------------------- *)

\* The host application as a call finds it.
\* The active markdown view, if any, and what is selected in its editor.
Editors ==
    { [ editor |-> FALSE, selection |-> "" ],
      [ editor |-> TRUE, selection |-> "" ],
      [ editor |-> TRUE, selection |-> "text" ] }

\* The members every plain object inherits from Object.prototype (one of
\* them stands for all): obj[k] finds them for the keys obj does not have.
ObjectPrototypeKeys == { "constructor" }

\* Whether the property read obj[k] yields something truthy, the own
\* properties of obj all holding truthy values (command objects, link
\* counts).
HasProperty(obj, k) == k \in DOMAIN obj \/ k \in ObjectPrototypeKeys

\* app.commands.commands: the commands by id, with their names.
CommandTable == [ id \in { "app:reload" } |-> "Reload app" ]

\* metadataCache.resolvedLinks: for each source document, the documents it
\* has resolved links to, with the number of links.
ResolvedLinks ==
    [ source \in { "b.md", "c.md", "d.md" } |->
        CASE source = "b.md" -> [ dest \in { "a.md" } |-> 1 ]
          [] source = "c.md" -> [ dest \in { "a.md", "x.md" } |->
                                   IF dest = "a.md" THEN 2 ELSE 1 ]
          [] source = "d.md" -> [ dest \in { "x.md" } |-> 1 ] ]

\* The vault holds a.md and a folder named constructor.
Hosts ==
    { [ activeFile |-> a, editor |-> v.editor, selection |-> v.selection,
        files |-> { "a.md", "constructor" }, cached |-> c,
        commands |-> CommandTable, resolvedLinks |-> ResolvedLinks ] :
        a \in { "", "a.md" }, v \in Editors, c \in BOOLEAN }

\* normalizePath of the host for the paths of the model: the slash a path
\* begins with is removed; a path in normal form is returned as it is.
NormalizePath(path) == IF path = "/a.md" THEN "a.md" ELSE path

Has(input, f) == f \in DOMAIN input

\* input.f: undefined when the call did not carry it.
Get(input, f) == IF f \in DOMAIN input THEN input[f] ELSE Undefined

IsTrue(input, f) == Get(input, f) = Bool(TRUE)

NoFields == [ x \in {} |-> Undefined ]

\* What the body of an execute does when nothing raises: the capability
\* operations it invokes, in order, and the object it returns (its error
\* message, "" when it has none, and its other fields), and the 0-based
\* line it puts the cursor on, if it does, and the argument it hands to its
\* last operation, for the tools that act through it.
Body(ops, error, data) ==
    [ ops |-> ops, error |-> error, data |-> data, cursor |-> Undefined,
      arg |-> Undefined ]

\* The seven file tools delegate to one function of tools/*.js each.
Delegated(fn) == Body(<< fn >>, "", NoFields)

create_folder(input, host) ==
    Body(<< "createFolderTool", "Notice" >>, "", NoFields)

edit_file(input, host) ==
    IF Issues(EditFileParametersSchema, input) # {}
    THEN Body(<< >>, "Invalid parameters provided.", NoFields)
    ELSE Delegated("editFileTool")

\* The object get_active_file returns for the active file (its basename
\* and extension, parts of its name, left out).
ActiveFileResult(input, host) ==
    IF IsTrue(input, "include_content")
    THEN [ active |-> Bool(TRUE), path |-> Str(host.activeFile),
           name |-> Str(host.activeFile), content |-> Str("content") ]
    ELSE [ active |-> Bool(TRUE), path |-> Str(host.activeFile),
           name |-> Str(host.activeFile) ]

\* get_active_file without its test of the active file.
get_active_file_unchecked(input, host) ==
    Body(<< "workspace.getActiveFile" >>
           \o (IF IsTrue(input, "include_content")
               THEN << "vault.read" >> ELSE << >>),
         "", ActiveFileResult(input, host))

get_active_file(input, host) ==
    IF host.activeFile = ""
    THEN Body(<< "workspace.getActiveFile" >>, "No active file",
              [ active |-> Bool(FALSE) ])
    ELSE Body(<< "workspace.getActiveFile" >>
                \o (IF IsTrue(input, "include_content")
                    THEN << "vault.read" >> ELSE << >>),
              "", ActiveFileResult(input, host))

\* open_file putting the cursor on the line as given.
open_file_same_line(input, host) ==
    IF Get(input, "relative_path").s \notin host.files
    THEN Body(<< "vault.getAbstractFileByPath" >>, "File not found",
              [ path |-> Get(input, "relative_path") ])
    ELSE [ Body(<< "vault.getAbstractFileByPath", "workspace.getLeaf",
                   "leaf.openFile" >>
                  \o (IF Has(input, "line")
                      THEN << "workspace.getActiveViewOfType" >>
                             \o (IF host.editor THEN << "editor.setCursor" >>
                                 ELSE << >>)
                      ELSE << >>),
                "",
                [ success |-> Bool(TRUE),
                  path |-> Get(input, "relative_path"),
                  line |-> Get(input, "line") ])
           EXCEPT !.cursor = IF Has(input, "line") /\ host.editor
                             THEN Num(Get(input, "line").n)
                             ELSE Undefined ]

\* open_file: the cursor goes to line - 1, lines being counted from 0 by the
\* editor.
open_file(input, host) ==
    IF Get(input, "relative_path").s \notin host.files
    THEN Body(<< "vault.getAbstractFileByPath" >>, "File not found",
              [ path |-> Get(input, "relative_path") ])
    ELSE [ Body(<< "vault.getAbstractFileByPath", "workspace.getLeaf",
                   "leaf.openFile" >>
                  \o (IF Has(input, "line")
                      THEN << "workspace.getActiveViewOfType" >>
                             \o (IF host.editor THEN << "editor.setCursor" >>
                                 ELSE << >>)
                      ELSE << >>),
                "",
                [ success |-> Bool(TRUE),
                  path |-> Get(input, "relative_path"),
                  line |-> Get(input, "line") ])
           EXCEPT !.cursor = IF Has(input, "line") /\ host.editor
                             THEN Num(Get(input, "line").n - 1)
                             ELSE Undefined ]

get_selection(input, host) ==
    IF ~host.editor
    THEN Body(<< "workspace.getActiveViewOfType" >>,
              "No active markdown editor", [ hasSelection |-> Bool(FALSE) ])
    ELSE IF host.selection = ""
    THEN Body(<< "workspace.getActiveViewOfType", "editor.getSelection" >>,
              "", [ hasSelection |-> Bool(FALSE) ])
    ELSE Body(<< "workspace.getActiveViewOfType", "editor.getSelection",
                 "editor.getCursor", "editor.getCursor" >>,
              "", [ hasSelection |-> Bool(TRUE) ])

insert_text(input, host) ==
    IF ~host.editor
    THEN Body(<< "workspace.getActiveViewOfType" >>,
              "No active markdown editor", NoFields)
    ELSE Body(<< "workspace.getActiveViewOfType", "editor.replaceSelection" >>,
              "", NoFields)

get_vault_info(input, host) ==
    Body(<< "vault.getMarkdownFiles", "vault.getAllLoadedFiles",
            "vault.getName" >>, "", NoFields)

search_vault(input, host) ==
    Body(<< "vault.getMarkdownFiles" >>
           \o (IF IsTrue(input, "include_content") /\ Get(input, "query").s = "a.md"
               THEN << "vault.read" >> ELSE << >>),
         "", [ query |-> Get(input, "query") ])

get_file_metadata(input, host) ==
    IF Get(input, "relative_path").s \notin host.files
    THEN Body(<< "vault.getAbstractFileByPath" >>, "File not found",
              [ path |-> Get(input, "relative_path") ])
    ELSE IF ~host.cached
    THEN Body(<< "vault.getAbstractFileByPath", "metadataCache.getFileCache" >>,
              "No cached metadata available for this file", NoFields)
    ELSE Body(<< "vault.getAbstractFileByPath", "metadataCache.getFileCache" >>,
              "", [ path |-> Get(input, "relative_path") ])

get_links(input, host) ==
    IF Get(input, "relative_path").s \notin host.files
    THEN Body(<< "vault.getAbstractFileByPath" >>, "File not found",
              [ path |-> Get(input, "relative_path") ])
    ELSE Body(<< "vault.getAbstractFileByPath" >>, "",
              [ path |-> Get(input, "relative_path") ])

get_open_files(input, host) ==
    Body(<< "workspace.getLeavesOfType" >>, "", NoFields)

list_commands(input, host) ==
    Body(<< "commands.listCommands" >>, "", NoFields)

\* execute_command: the command is looked up with commands[command_id];
\* commandName is command.name, which JSON.stringify leaves out when it is
\* undefined.
execute_command(input, host) ==
    LET id == Get(input, "command_id")
    IN  IF ~HasProperty(host.commands, id.s)
        THEN Body(<< >>, "Command not found", [ commandId |-> id ])
        ELSE [ Body(<< "commands.executeCommandById" >>, "",
                    IF id.s \in DOMAIN host.commands
                    THEN [ success |-> Bool(TRUE), commandId |-> id,
                           commandName |-> Str(host.commands[id.s]) ]
                    ELSE [ success |-> Bool(TRUE), commandId |-> id ])
               EXCEPT !.arg = id ]

\* The number of entries of resolvedLinks whose links[path] is truthy.
Backlinks(links, path) ==
    Cardinality({ source \in DOMAIN links : HasProperty(links[source], path) })

\* rename_file: both paths are normalized; the error names the path as
\* given; the links are counted before fileManager.renameFile is awaited.
rename_file(input, host) ==
    LET oldPath == NormalizePath(Get(input, "old_path").s)
        newPath == NormalizePath(Get(input, "new_path").s)
    IN  IF oldPath \notin host.files
        THEN Body(<< "vault.getAbstractFileByPath" >>, "File not found",
                  [ path |-> Get(input, "old_path") ])
        ELSE [ Body(<< "vault.getAbstractFileByPath",
                       "fileManager.renameFile" >>,
                    "",
                    [ success |-> Bool(TRUE),
                      oldPath |-> Str(oldPath), newPath |-> Str(newPath),
                      linksUpdated |->
                          Num(Backlinks(host.resolvedLinks, oldPath)) ])
               EXCEPT !.arg = Str(newPath) ]

\* The try block of tool n's execute.
TryBlock(n, input, host) ==
    CASE n = "list_files"        -> Delegated("listFilesTool")
      [] n = "read_file"         -> Delegated("readFileTool")
      [] n = "create_file"       -> Delegated("createFileTool")
      [] n = "edit_file"         -> edit_file(input, host)
      [] n = "delete_file"       -> Delegated("deleteFileTool")
      [] n = "create_folder"     -> create_folder(input, host)
      [] n = "delete_folder"     -> Delegated("deleteFolderTool")
      [] n = "get_active_file"   -> get_active_file(input, host)
      [] n = "open_file"         -> open_file(input, host)
      [] n = "get_selection"     -> get_selection(input, host)
      [] n = "insert_text"       -> insert_text(input, host)
      [] n = "get_vault_info"    -> get_vault_info(input, host)
      [] n = "search_vault"      -> search_vault(input, host)
      [] n = "get_file_metadata" -> get_file_metadata(input, host)
      [] n = "get_links"         -> get_links(input, host)
      [] n = "get_open_files"    -> get_open_files(input, host)
      [] n = "list_commands"     -> list_commands(input, host)
      [] n = "execute_command"   -> execute_command(input, host)
      [] n = "rename_file"       -> rename_file(input, host)

\* The error message of the catch block of tool n's execute.
CatchBlock(n) ==
    CASE n = "list_files"        -> "Failed to list files. See console for details."
      [] n = "read_file"         -> "Failed to read file. See console for details."
      [] n = "create_file"       -> "Failed to write file. See console for details."
      [] n = "edit_file"         -> "Failed to execute edit_file tool"
      [] n = "delete_file"       -> "Failed to delete file. See console for details."
      [] n = "create_folder"     -> "Failed to create folder. See console for details."
      [] n = "delete_folder"     -> "Failed to delete folder. See console for details."
      [] n = "get_active_file"   -> "Failed"
      [] n = "open_file"         -> "Failed to open file"
      [] n = "get_selection"     -> "Failed to get selection"
      [] n = "insert_text"       -> "Failed to insert text"
      [] n = "get_vault_info"    -> "Failed to get vault info"
      [] n = "search_vault"      -> "Failed to search vault"
      [] n = "get_file_metadata" -> "Failed to get file metadata"
      [] n = "get_links"         -> "Failed"
      [] n = "get_open_files"    -> "Failed to get open files"
      [] n = "list_commands"     -> "Failed to list commands"
      [] n = "execute_command"   -> "Failed to execute command"
      [] n = "rename_file"       -> "Failed to rename file"

\* The operations of a try block that run when the failAt-th of them raises
\* (all of them when failAt is 0 or beyond the last).
Performed(ops, failAt) ==
    IF failAt \in 1..Len(ops) THEN SubSeq(ops, 1, failAt) ELSE ops

\* execute with no try/catch: what an operation raises leaves execute.
ExecuteUncaught(n, input, host, failAt) ==
    LET body == TryBlock(n, input, host)
        threw == failAt \in 1..Len(body.ops)
    IN  [ ops |-> Performed(body.ops, failAt),
          raised |-> threw,
          escaped |-> threw,
          error |-> IF threw THEN "" ELSE body.error,
          data |-> IF threw THEN NoFields ELSE body.data,
          cursor |-> IF threw THEN Undefined ELSE body.cursor,
          arg |-> IF Len(Performed(body.ops, failAt)) = Len(body.ops)
                  THEN body.arg ELSE Undefined ]

\* Tool n's execute on validated input: the try block runs until one of its
\* operations raises (the failAt-th), and the catch block turns what was
\* raised into the error object it returns.
Execute(n, input, host, failAt) ==
    LET body == TryBlock(n, input, host)
        threw == failAt \in 1..Len(body.ops)
    IN  [ ops |-> Performed(body.ops, failAt),
          raised |-> threw,
          escaped |-> FALSE,
          error |-> IF threw THEN CatchBlock(n) ELSE body.error,
          data |-> IF threw THEN NoFields ELSE body.data,
          cursor |-> IF threw THEN Undefined ELSE body.cursor,
          arg |-> IF Len(Performed(body.ops, failAt)) = Len(body.ops)
                  THEN body.arg ELSE Undefined ]

(* -------------------------- tools: dispatch ---------------------------- *)

\* How the settings the server was built from stood to the tool named.
Target(srv, n) ==
    IF n \notin Catalog THEN "unknown"
    ELSE IF n \in srv.off THEN "disabled" ELSE "enabled"

\* The transport's handling of a call on server srv: the tool is looked up
\* among those registered, the arguments are validated against the
\* parameters it was registered with, and only then execute runs.
Dispatch(srv, n, args, host, failAt) ==
    LET call == [ NoCall EXCEPT !.tool = n, !.target = Target(srv, n),
                                !.missing = MissingRequired(n, args),
                                !.handlers = Registrations(srv, n) ]
    IN  IF n \notin Registered(srv)
        THEN [ call EXCEPT !.kind = "notfound", !.error = "Tool not found",
                           !.names = { n } ]
        ELSE IF Issues(AddTool(n).parameters, args) # {}
        THEN [ call EXCEPT !.kind = "invalid", !.error = "Invalid parameters",
                           !.names = Issues(AddTool(n).parameters, args) ]
        ELSE LET r == Execute(n, Parsed(AddTool(n).parameters, args), host, failAt)
             IN  [ call EXCEPT !.kind = "result", !.error = r.error,
                               !.data = r.data, !.ops = r.ops, !.ran = TRUE,
                               !.raised = r.raised, !.escaped = r.escaped,
                               !.host = host, !.cursor = r.cursor,
                               !.arg = r.arg,
                               !.input = Parsed(AddTool(n).parameters, args) ]

(* --------------------------- tools: calls ------------------------------ *)

\* The index of the capability operation that raises, 0 for none.
MaxFailAt == 5

\* The tool names calls carry: the catalog and a name that is no tool.
CallNames == Catalog \cup { "no_such_tool" }

\* Sample values of a field, by its type: v is 1 or 2.
Sample(x, v) ==
    CASE x.type = "number"  -> IF v = 1 THEN Num(5) ELSE Num(1)
      [] x.type = "boolean" -> Bool(v = 1)
      [] x.type = "enum"    -> IF v = 1 THEN Str("incoming") ELSE Str("both")
      [] x.name = "command_id" ->
           IF v = 1 THEN Str("app:reload") ELSE Str("no:such")
      [] OTHER -> IF v = 1 THEN Str("a.md") ELSE Str("missing.md")

\* A value of another type than declared.
WrongValue(x) == IF x.type = "number" THEN Str("5") ELSE Num(7)

Full(schema, v) ==
    [ f \in FieldNames(schema) |-> Sample(FieldOf(schema, f), v) ]

Without(args, f) == [ g \in DOMAIN args \ { f } |-> args[g] ]

With(args, f, value) ==
    [ g \in DOMAIN args \cup { f } |-> IF g = f THEN value ELSE args[g] ]

\* Further values of command_id and old_path: a name every plain object
\* inherits, and a path that is not in normal form.
SpecialNames ==
    [ f \in { "command_id", "old_path" } |->
        IF f = "command_id" THEN { "constructor" }
        ELSE { "constructor", "/a.md" } ]

\* The arguments calls of tool n carry: every declared field with the one or
\* the other sample value; the required fields alone; one field left out;
\* one field of the wrong type; one field the schema does not declare; the
\* further values of command_id and old_path.
ArgChoices(n) ==
    LET schema == Schema(n)
        full == Full(schema, 1)
    IN  { full, Full(schema, 2) }
        \cup { [ f \in { x.name : x \in { y \in schema : y.required } }
                   |-> full[f] ] }
        \cup { Without(full, f) : f \in FieldNames(schema) }
        \cup { With(full, f, WrongValue(FieldOf(schema, f))) :
                 f \in FieldNames(schema) }
        \cup { With(full, "extra", Str("x")) }
        \cup UNION { { With(full, f, Str(v)) : v \in SpecialNames[f] } :
                       f \in FieldNames(schema) \cap DOMAIN SpecialNames }

\* Whether a call reaches the tool's execute.
ReachesExecute(srv, n, args) ==
    n \in Registered(srv) /\ Issues(AddTool(n).parameters, args) = {}

\* The hosts and raising operations a call is taken with. They bear on the
\* calls that reach execute only, so the others are taken with one host and
\* nothing raising.
Runs(srv, n, args) ==
    IF ReachesExecute(srv, n, args)
    THEN { run \in Hosts \X (0..MaxFailAt) :
             run[2] <= Len(TryBlock(n, Parsed(AddTool(n).parameters, args),
                                    run[1]).ops) }
    ELSE { << CHOOSE host \in Hosts : host.activeFile = "" /\ ~host.editor, 0 >> }

\* A call arrives at a listening transport and is answered. A call changes
\* nothing but the record of its answer, so calls are taken from the states
\* in which no answer is recorded.
CallTool(srv) ==
    /\ srv.state = "listening"
    /\ lastCall = NoCall
    /\ \E n \in CallNames :
         \E args \in ArgChoices(n) :
           \E run \in Runs(srv, n, args) :
             lastCall' = Dispatch(srv, n, args, run[1], run[2])
    /\ notices' = IF "Notice" \in Range(lastCall'.ops)
                  THEN << "server.folderCreated" >> ELSE << >>
    /\ UNCHANGED << phase, persisted, settings, mcpServer, detached,
                    pendingRestarts, portBusy >>

(* --------------------------- specification ----------------------------- *)

Init ==
    /\ phase = "constructed"
    /\ persisted \in PersistedChoices
    /\ settings = NoData
    /\ mcpServer = NoServer
    /\ detached = EmptyBag
    /\ pendingRestarts = << >>
    /\ portBusy \in SUBSET ExternalPorts
    /\ notices = << >>
    /\ lastCall = NoCall

Next ==
    \/ OnLoad
    \/ StartCommand
    \/ StopCommand
    \/ OnUnload
    \/ RestartBegin
    \/ RestartResume
    \/ \E text \in PortTexts : SetPort(text)
    \/ \E n \in EditableTools : SetToolToggle(n)
    \/ BindComplete
    \/ \E srv \in BagToSet(detached) : BindCompleteDetached(srv)
    \/ \E srv \in BagToSet(detached) : CloseComplete(srv)
    \/ \E code \in ErrorCodes : TransportError(code)
    \/ \E p \in ExternalPorts : ExternalBind(p)
    \/ \E p \in ExternalPorts : ExternalRelease(p)

Spec == Init /\ [][Next]_vars

\* The server with its tools and the calls it answers: the settings are
\* loaded, tools are toggled, the server is started and stopped, calls
\* arrive at whatever transport listens, and transports report errors.
NextCalls ==
    \/ OnLoad
    \/ StartCommand
    \/ StopCommand
    \/ \E n \in EditableTools : SetToolToggle(n)
    \/ BindComplete
    \/ \E srv \in BagToSet(detached) : BindCompleteDetached(srv)
    \/ \E srv \in BagToSet(detached) : CloseComplete(srv)
    \/ \E srv \in Transports : CallTool(srv)
    \/ \E code \in ErrorCodes : TransportError(code)

SpecCalls == Init /\ [][NextCalls]_vars

\* The server and the toggle of execute_command: the settings are loaded,
\* the toggle is flipped, the server is started, stopped and restarted.
NextTools ==
    \/ OnLoad
    \/ StartCommand
    \/ StopCommand
    \/ RestartBegin
    \/ RestartResume
    \/ SetToolToggle("execute_command")
    \/ BindComplete
    \/ \E srv \in BagToSet(detached) : BindCompleteDetached(srv)
    \/ \E srv \in BagToSet(detached) : CloseComplete(srv)

SpecTools == Init /\ [][NextTools]_vars

(* ------------------------------ lifecycle ------------------------------ *)

\* C1: a start invoked while a server is held (the start command, or the
\* start half of a restart) leaves the held server and every transport as
\* they are, builds no server, and emits the "already running" notice.
C1_StartWhileRunning ==
    [][ ((StartCommand \/ RestartResume) /\ LifecycleState = "Running") =>
          /\ mcpServer' = mcpServer
          /\ detached' = detached
          /\ notices' # << >>
          /\ Head(notices') = "notices.serverAlreadyRunning" ]_vars

\* A restart whose start half found a server already held.
C1_Witness ==
    /\ LifecycleState = "Running"
    /\ notices = << "notices.serverAlreadyRunning",
                    "settings.notices.restartSuccess" >>

\* C2: a stop invoked while no server is held (the stop command, onunload,
\* or the stop half of a restart) leaves the state Stopped, touches no
\* transport, and emits the "already stopped" notice.
C2_StopWhileStopped ==
    [][ ((StopCommand \/ OnUnload \/ RestartBegin) /\ LifecycleState = "Stopped") =>
          /\ LifecycleState' = "Stopped"
          /\ detached' = detached
          /\ notices' = << "notices.serverAlreadyStopped" >> ]_vars

\* A stop that found nothing to stop, with a transport still closing.
C2_Witness ==
    /\ LifecycleState = "Stopped"
    /\ phase = "loaded"
    /\ notices = << "notices.serverAlreadyStopped" >>
    /\ detached # EmptyBag

\* The settings panel reported a restart as done, and no operation of the
\* plugin has run since.
RestartReturned ==
    notices # << >> /\ Last(notices) = "settings.notices.restartSuccess"

\* C3: once restart has returned, the state is Running or Stopped; it is
\* Stopped if the bind of the server it started failed, and Running if that
\* server is listening.
C3_RestartEnds ==
    RestartReturned =>
        /\ LifecycleState \in { "Running", "Stopped" }
        /\ mcpServer.state = "failed" => LifecycleState = "Stopped"
        /\ mcpServer.state = "listening" => LifecycleState = "Running"

\* C4: at most one transport holds a port.
C4_AtMostOneBound == BoundCount <= 1

\* A start from Stopped whose bind fails: the transport's start raises at
\* once, or the pending listen of the server fails later.
StartBindFails ==
    \/ /\ LifecycleState = "Stopped"
       /\ phase' # "constructed"
       /\ \E after \in { << >>, << "settings.notices.restartSuccess" >> } :
             StartMCPServer(settings', TRUE, after)
    \/ /\ BindComplete
       /\ ~PortAvailable(mcpServer.port)

\* C5: when the bind of a start fails, the state is Stopped afterwards (no
\* server is held) and the failure is reported: MCPServer.start() shows its
\* notice and re-raises, and startMCPServer shows the failure it caught.
C5_BindFailureStops ==
    [][ StartBindFails =>
          /\ LifecycleState' = "Stopped"
          /\ "server.startError" \in Range(notices')
          /\ "notices.serverStartFailed" \in Range(notices') ]_vars

\* C6: as long as the same server is held, the tools registered on it stay
\* the ones registered when it was built, whatever is toggled.
C6_ToolsFixedWhileRunning ==
    [][ (LifecycleState = "Running" /\ LifecycleState' = "Running") =>
          mcpServer'.tools = mcpServer.tools ]_vars

\* A toggle flipped during a run: the running server's tools differ from
\* the tools the settings now enable.
C6_Witness ==
    /\ mcpServer.state = "listening"
    /\ Registered(mcpServer) # { n \in Catalog : Truthy(settings.tools, n) }

(* ------------------------------ tools ---------------------------------- *)

\* C7: for every catalog name n, the tool set built at start excludes n when
\* its toggle is false and includes n when its toggle is true or absent from
\* the configuration, a toggle missing from the persisted settings that
\* loadSettings loaded included.
C7_TogglesDecideRegistration ==
    [][ (mcpServer = NoServer /\ mcpServer' # NoServer) =>
          \A n \in Catalog :
            n \in Registered(mcpServer') <=>
              ~(n \in DOMAIN settings'.tools /\ settings'.tools[n] = FALSE) ]_vars

\* C8: a call naming a tool that is disabled in the server's tool set, or
\* that is no tool, is answered with an error identifying the name; no
\* handler runs and no capability operation is invoked.
C8_DisabledOrUnknownNotFound ==
    lastCall.target \in { "disabled", "unknown" } =>
        /\ lastCall.kind = "notfound"
        /\ lastCall.error # ""
        /\ lastCall.names = { lastCall.tool }
        /\ ~lastCall.ran
        /\ lastCall.ops = << >>

C8_Witness ==
    /\ lastCall.tool = "rename_file"
    /\ lastCall.target = "disabled"
    /\ lastCall.kind = "notfound"
    /\ "rename_file" \in DOMAIN settings.tools

\* C9: a call to an active tool whose arguments lack a field the tool's
\* schema requires is answered with a validation error naming that field;
\* the handler body does not run and no capability operation is invoked.
C9_MissingRequiredRejected ==
    (lastCall.target = "enabled" /\ lastCall.missing # {}) =>
        /\ lastCall.kind = "invalid"
        /\ lastCall.error # ""
        /\ lastCall.missing \subseteq lastCall.names
        /\ ~lastCall.ran
        /\ lastCall.ops = << >>

C9_Witness ==
    /\ lastCall.tool = "open_file"
    /\ lastCall.target = "enabled"
    /\ lastCall.missing = { "relative_path" }
    /\ lastCall.kind = "invalid"

\* C10: when the handler of a registered tool, or a capability operation it
\* invokes, raises, the call returns an object with an error field and what
\* was raised does not leave the tool's execute.
C10_FailuresBecomeErrorResults ==
    lastCall.raised =>
        /\ lastCall.kind = "result"
        /\ lastCall.error # ""
        /\ ~lastCall.escaped

C10_Witness ==
    /\ lastCall.tool = "rename_file"
    /\ lastCall.raised
    /\ Last(lastCall.ops) = "fileManager.renameFile"
    /\ lastCall.error = CatchBlock("rename_file")

(* ---------------------------- configuration ---------------------------- *)

\* The port a text denotes when it is a number: white space around it
\* aside, it is digits and nothing else.
IsNumeric(text) ==
    LET u == SkipSpaces(text)
    IN  u # << >> /\ \A k \in 1..Len(u) : u[k] \in Digits

\* A port the configuration may hold.
PortInRange(port) == port \in 1..65535

\* A start of a server: the plugin held none and holds one now.
Starts == mcpServer = NoServer /\ mcpServer' # NoServer

\* C11: after any port edits and restarts from a valid configuration, the
\* port handed to every start is an integer in 1..65535, and port input that
\* is not a number, or is one outside 1..65535, is rejected by the settings
\* panel: an invalid-port notice, and nothing stored.
C11_PortValidated ==
    [][ /\ Starts => PortInRange(mcpServer'.port)
        /\ \A text \in PortTexts :
             (SetPort(text)
                /\ ~(IsNumeric(text) /\ PortInRange(ParseInt(text).n))) =>
                  /\ UNCHANGED << settings, persisted >>
                  /\ notices' = << "settings.notices.invalidPort" >> ]_vars

\* C12: when the port is changed from p to q while the server runs on p and
\* restart is then called, the transport is bound to the configured port once
\* restart completes. (That p is released by then is the other half of the
\* claim; the formula keeps the half that needs no record of p.) The cases
\* in which the start half cannot bind are left out: a start made during the
\* delay, and a port some transport holds.
C12_RestartHonoursPort ==
    [][ (/\ RestartResume
         /\ Head(pendingRestarts)
         /\ mcpServer = NoServer
         /\ PortAvailable(settings.port)) =>
            /\ mcpServer'.port = settings.port
            /\ Bound(mcpServer') ]_vars

(* --------------------------- single tools ------------------------------ *)

\* C13: a get_active_file call made when the workspace has no active
\* document returns exactly the object with error "No active file" and
\* active false, whatever include_content is, and reads no document.
C13_NoActiveFile ==
    (/\ lastCall.tool = "get_active_file"
     /\ lastCall.ran
     /\ ~lastCall.raised
     /\ lastCall.host.activeFile = "") =>
        /\ lastCall.error = "No active file"
        /\ lastCall.data = [ active |-> Bool(FALSE) ]
        /\ "vault.read" \notin Range(lastCall.ops)

C13_Witness ==
    /\ lastCall.tool = "get_active_file"
    /\ lastCall.ran
    /\ lastCall.host.activeFile = ""
    /\ IsTrue(lastCall.input, "include_content")
    /\ lastCall.error = "No active file"

\* C14: an open_file call naming an existing document, with line n, returns
\* a success result echoing the path and n, and puts the cursor on the
\* 0-based line n - 1 when an editor view is there; one naming a path that
\* does not exist returns a "File not found" error and opens nothing.
C14_OpenFile ==
    (lastCall.tool = "open_file" /\ lastCall.ran /\ ~lastCall.raised) =>
        IF lastCall.input.relative_path.s \in lastCall.host.files
        THEN Has(lastCall.input, "line") =>
               /\ lastCall.error = ""
               /\ lastCall.data.success = Bool(TRUE)
               /\ lastCall.data.path = lastCall.input.relative_path
               /\ lastCall.data.line = lastCall.input.line
               /\ lastCall.host.editor =>
                    lastCall.cursor = Num(lastCall.input.line.n - 1)
        ELSE /\ lastCall.error = "File not found"
             /\ lastCall.data = [ path |-> lastCall.input.relative_path ]
             /\ Range(lastCall.ops) = { "vault.getAbstractFileByPath" }

C14_Witness ==
    /\ lastCall.tool = "open_file"
    /\ lastCall.error = ""
    /\ lastCall.data.line = Num(5)
    /\ lastCall.cursor = Num(4)
    /\ "editor.setCursor" \in Range(lastCall.ops)

(* ------------------------- tools and lifecycle ------------------------- *)

\* The tool sets of a set of servers.
ToolSets(servers) == { srv.tools : srv \in servers }

\* C15: every start, that of a restart included, builds the tool set from
\* the toggles as they are at that moment; a toggle changed while Running or
\* Stopped shows in the next run and in no run begun earlier.
C15_ToolsFromCurrentToggles ==
    [][ /\ Starts => mcpServer'.tools = SetupTools(settings'.tools)
        /\ (mcpServer # NoServer /\ mcpServer' # NoServer) =>
              mcpServer'.tools = mcpServer.tools
        /\ ToolSets(BagToSet(detached')) \subseteq ToolSets(Transports) ]_vars

C15_Witness ==
    /\ mcpServer # NoServer
    /\ settings.tools = [ DEFAULT_SETTINGS.tools EXCEPT !["rename_file"] = FALSE ]
    /\ "rename_file" \notin Registered(mcpServer)
    /\ \E srv \in BagToSet(detached) : "rename_file" \in Registered(srv)

\* A stop of the server held: by the stop command, by onunload, or as the
\* stop half of a restart.
Stops == StopCommand \/ OnUnload \/ RestartBegin

\* C16: a stop made while the server runs, its transport listening, ends in
\* Stopped with the transport's port released when stop returns, also when
\* the transport's stop raises.
C16_StopReleasesPort ==
    [][ (Stops /\ Bound(mcpServer)) =>
          /\ LifecycleState' = "Stopped"
          /\ BoundCount' < BoundCount ]_vars

\* A call that failed: the step records the answer to a call, which only
\* CallTool does, and the answer carries an error.
FailedCall == lastCall = NoCall /\ lastCall' # NoCall /\ lastCall'.error # ""

\* C17: a failure inside a tool handler, or an 'error' event of a transport
\* during a run, leaves the lifecycle state as it was: the server the plugin
\* holds, with its port and its tools, and the transports that hold ports.
C17_FailuresLeaveLifecycle ==
    [][ (FailedCall \/ \E code \in ErrorCodes : TransportError(code)) =>
          UNCHANGED << mcpServer, detached, portBusy >> ]_vars

C17_Witness ==
    /\ lastCall.tool = "execute_command"
    /\ lastCall.raised
    /\ lastCall.ops = << "commands.executeCommandById" >>
    /\ mcpServer.state = "listening"
    /\ "execute_command" \in Registered(mcpServer)

(* ---------------------------- concurrency ------------------------------ *)

\* C18: lifecycle transitions are serialized; in particular, while a restart
\* waits between its stop half and its start half, no start command, stop
\* command, unload or second restart executes.
C18_TransitionsSerialized ==
    [][ pendingRestarts # << >> => ~(StartCommand \/ Stops) ]_vars

\* A call is answered: the step records the answer, which only CallTool
\* does.
CallAnswered == lastCall = NoCall /\ lastCall' # NoCall

\* C19: a call whose handler is executing when stop is invoked runs to its
\* end and is answered before the transport is torn down, and no call that
\* arrives after stop is accepted. A handler runs within one step here, so
\* the formula keeps the second half: the detached transports being those
\* stop was invoked on, a call is answered only while the server the plugin
\* holds is listening.
C19_NoCallAfterStop ==
    [][ CallAnswered => mcpServer.state = "listening" ]_vars

(* ------------------------------ errors --------------------------------- *)

\* C20: for every 'error' event of a transport during a run, a notification
\* is emitted if and only if the error's code is not -32001, and the event
\* is logged either way.
C20_ErrorNoticeUnlessDisconnect ==
    [][ \A code \in ErrorCodes :
          TransportError(code) =>
            /\ ErrorLogged \in Range(notices')
            /\ "server.genericError" \in Range(notices') <=> code # -32001 ]_vars

C20_Witness ==
    /\ notices = << ErrorLogged >>
    /\ mcpServer.state = "listening"

(* ---------------------------- registration ----------------------------- *)

\* C21: on every server instance each tool name is registered at most once,
\* and a call that is accepted runs the one handler registered under its
\* name.
C21_NamesRegisteredOnce ==
    /\ \A srv \in Transports :
         \A n \in Catalog : Registrations(srv, n) <= 1
    /\ lastCall.ran => lastCall.handlers = 1

\* An accepted rename_file call on a server built with every toggle on.
C21_Witness ==
    /\ lastCall.tool = "rename_file"
    /\ lastCall.ran
    /\ lastCall.handlers = 1
    /\ Len(mcpServer.tools) = Len(ToolOrder)

(* ----------------------- commands and renames -------------------------- *)

\* C22: an execute_command call whose command_id is not in the host's
\* command table returns the error "Command not found" carrying the id and
\* never invokes executeCommandById; a call with a known id invokes
\* executeCommandById exactly once, with that id.
C22_ExecuteCommand ==
    (lastCall.tool = "execute_command" /\ lastCall.ran) =>
        IF lastCall.input.command_id.s \notin DOMAIN lastCall.host.commands
        THEN /\ lastCall.error = "Command not found"
             /\ lastCall.data.commandId = lastCall.input.command_id
             /\ "commands.executeCommandById" \notin Range(lastCall.ops)
        ELSE /\ lastCall.ops = << "commands.executeCommandById" >>
             /\ lastCall.arg = lastCall.input.command_id

\* The source documents that have a resolved link to path.
LinkedSources(host, path) ==
    { source \in DOMAIN host.resolvedLinks :
        path \in DOMAIN host.resolvedLinks[source] }

\* C23: a rename_file call whose old_path names nothing in the vault returns
\* a "File not found" error without invoking the rename; otherwise it invokes
\* the rename exactly once and reports as linksUpdated the number of source
\* documents that had a resolved link to old_path before the rename.
C23_RenameFile ==
    (lastCall.tool = "rename_file" /\ lastCall.ran /\ ~lastCall.raised) =>
        LET oldPath == NormalizePath(lastCall.input.old_path.s)
        IN  IF oldPath \notin lastCall.host.files
            THEN /\ lastCall.error = "File not found"
                 /\ "fileManager.renameFile" \notin Range(lastCall.ops)
            ELSE /\ lastCall.ops = << "vault.getAbstractFileByPath",
                                     "fileManager.renameFile" >>
                 /\ lastCall.data.linksUpdated =
                       Num(Cardinality(LinkedSources(lastCall.host, oldPath)))

(* ------------------------------ unload --------------------------------- *)

\* C24: after onunload has run, no transport is bound and none becomes bound
\* later, whatever onunload is interleaved with, a restart waiting in its
\* delay included. The formula keeps the transport of the server the
\* plugin holds, which onunload lets go of: it leaves aside the transports
\* whose close or listen was pending when onunload ran.
C24_NothingBoundAfterUnload ==
    phase = "unloaded" => ~Bound(mcpServer)

\* C25: the plugin holds a server if and only if a transport is bound to a
\* port; in particular a bind failure that comes after start() has returned
\* does not leave the server held. The formula keeps the particular case.
C25_ReferenceIffBound ==
    mcpServer # NoServer => mcpServer.state # "failed"

(* ------------------------- the settings panel -------------------------- *)

\* C26: the restart button shows the restart-success notice only if the
\* server is Running when the restart completes; when the start half of the
\* restart fails, it shows the restart-error notice and not the
\* restart-success notice.
C26_RestartNotices ==
    [][ RestartResume =>
          /\ "settings.notices.restartSuccess" \in Range(notices') =>
                LifecycleState' = "Running"
          /\ "notices.serverStartFailed" \in Range(notices') =>
                /\ "settings.notices.restartError" \in Range(notices')
                /\ "settings.notices.restartSuccess" \notin Range(notices')
      ]_vars

\* The texts for which parseInt(text) is no integer n with 0 < n < 65536.
UnparsableTexts ==
    { text \in PortTexts :
        LET r == ParsedPort[text] IN r.nan \/ ~(0 < r.n /\ r.n < 65536) }

\* C27: a port edit whose text does not parse to an integer n with
\* 0 < n < 65536 leaves the stored port, the persisted settings and the
\* lifecycle state as they were and triggers no restart; its only effect is
\* the invalid-port notice.
C27_InvalidPortFrame ==
    [][ \A text \in UnparsableTexts :
          SetPort(text) =>
             /\ UNCHANGED << settings, persisted, mcpServer, detached,
                             pendingRestarts, portBusy, phase >>
             /\ notices' = << "settings.notices.invalidPort" >> ]_vars

\* An out-of-range port was typed while a server listened.
C27_Witness ==
    /\ notices = << "settings.notices.invalidPort" >>
    /\ mcpServer.state = "listening"
    /\ settings.port = mcpServer.port

\* C28: changing the configured port while the server runs does not change
\* the port its transport is bound to: as long as the same server is held
\* its port is the one read when it was started, and the transports let go
\* of keep theirs.
C28_PortFixedWhileRunning ==
    [][ /\ Starts => mcpServer'.port = settings'.port
        /\ (mcpServer # NoServer /\ mcpServer' # NoServer) =>
              mcpServer'.port = mcpServer.port
        /\ (mcpServer # NoServer /\ settings'.port # settings.port) =>
              /\ mcpServer' = mcpServer
              /\ detached' = detached ]_vars

\* The port was changed during a run: the server listens on the old one.
C28_Witness ==
    /\ mcpServer.state = "listening"
    /\ mcpServer.port = DefaultPort
    /\ settings.port = LegacyPort
    /\ persisted.port = LegacyPort

(* ------------------------------- onload -------------------------------- *)

\* C30: when onload completes, the state is Running, or Stopped after a
\* reported start failure, if startOnStartup is true, and Stopped with no
\* server constructed if it is false; a server is started only by the
\* autostart, the start command or a restart.
C30_OnLoadAutostart ==
    [][ /\ (phase = "constructed" /\ phase' = "loaded") =>
              IF settings'.startOnStartup
              THEN \/ LifecycleState' = "Running"
                   \/ /\ LifecycleState' = "Stopped"
                      /\ "notices.serverStartFailed" \in Range(notices')
              ELSE /\ LifecycleState' = "Stopped"
                   /\ InstanceCount' = 0
                   /\ notices' = << >>
        /\ Starts =>
              \/ phase = "constructed" /\ settings'.startOnStartup
              \/ StartCommand
              \/ RestartResume ]_vars

\* onload has run without autostart, and the start command started the
\* server afterwards.
C30_Witness ==
    /\ phase = "loaded"
    /\ ~settings.startOnStartup
    /\ mcpServer.state = "binding"
    /\ notices = << "notices.serverStarted" >>

(* ------------------------------ defaults ------------------------------- *)

\* C29: with the default settings (nothing persisted), the tool set built at
\* start is the catalog without execute_command; execute_command comes to be
\* registered only by a start made with its toggle on, the toggle having
\* been turned on and saved.
C29_ExecuteCommandOptIn ==
    [][ /\ (Starts /\ persisted' = NoData) =>
              Registered(mcpServer') = Catalog \ { "execute_command" }
        /\ ("execute_command" \notin Registered(mcpServer)
              /\ "execute_command" \in Registered(mcpServer')) =>
              /\ Starts
              /\ Truthy(settings'.tools, "execute_command")
              /\ persisted' # NoData
              /\ Truthy(persisted'.tools, "execute_command") ]_vars

\* The toggle was turned on in this run, and the server started since has
\* execute_command; a server started before does not.
C29_Witness ==
    /\ "execute_command" \in Registered(mcpServer)
    /\ persisted = [ DEFAULT_SETTINGS EXCEPT !.tools.execute_command = TRUE ]
    /\ \E srv \in BagToSet(detached) : "execute_command" \notin Registered(srv)

====
